---- MODULE Spec2Model ----
(***************************************************************************)
(* pyCRUMBS: the CRUMBS message class, the frame codec (encode_message /   *)
(* decode_message) and the I2C leader transport (begin / send_message /    *)
(* request_message / close).                                               *)
(*                                                                         *)
(* The repository holds two copies of the protocol modules:                *)
(*   "legacy"  : src/CRUMBS.py            + src/CRUMBSMessage.py           *)
(*   "package" : src/src/pyCRUMBS/CRUMBS.py + src/src/pyCRUMBS/CRUMBSMessage.py *)
(* Each CRUMBS.py imports the CRUMBSMessage.py that sits beside it.  The   *)
(* variable impl says which pair is loaded; it never changes.              *)
(*                                                                         *)
(* A Python float is the exact dyadic rational m * 2^e, written <<m, e>>   *)
(* with m odd (or <<0, 0>> for zero).  A bytes object is a sequence of     *)
(* naturals below 256.                                                     *)
(***************************************************************************)
EXTENDS Integers, Sequences, FiniteSets, TLC

VARIABLES impl,      \* "legacy" or "package": the module pair in use
          ctor,      \* the last CRUMBSMessage(...) call: its arguments and outcome
          msg,       \* the CRUMBSMessage last constructed, or NoMsg
          enc,       \* the outcome of the last encode_message(msg), or Nothing
          buf,       \* the buffer last handed to decode_message
          dec,       \* the outcome of the last decode_message(buf), or Nothing
          bus,       \* self.bus: None, or the id of an SMBus object
          handles,   \* the SMBus objects created so far, by id
          last       \* what the last transport call did

vars == <<impl, ctor, msg, enc, buf, dec, bus, handles, last>>

----------------------------------------------------------------------------
(* Bounds of the model *)

\* longest data list handed to the CRUMBSMessage constructor
MaxDataLen == 9
\* longest buffer handed to decode_message
MaxBufLen == 32
\* number of SMBus objects begin() may create in one run
MaxHandles == 3
\* number of close() calls the bus driver records per SMBus object
MaxCloseCalls == 2

----------------------------------------------------------------------------
(* Program constants *)

\* CRUMBS_MESSAGE_SIZE of CRUMBS.py: the frame size the codec and the
\* transport use
CRUMBS_MESSAGE_SIZE == 27
\* CRUMBS_DATA_LENGTH of the package CRUMBSMessage.py
CRUMBS_DATA_LENGTH == 7
\* CRUMBS_MESSAGE_SIZE of the package CRUMBSMessage.py: the size of the
\* wire frame (CRUMBS.py does not import it)
MSG_MESSAGE_SIZE == 31

None == "None"

Impls == {"legacy", "package"}

----------------------------------------------------------------------------
(* Arithmetic helpers *)

RECURSIVE Pow2(_)
Pow2(n) == IF n = 0 THEN 1 ELSE 2 * Pow2(n - 1)

RECURSIVE BitLen(_)
BitLen(a) == IF a = 0 THEN 0 ELSE 1 + BitLen(a \div 2)

Abs(x) == IF x < 0 THEN 0 - x ELSE x

RECURSIVE Xor(_, _, _)
\* bitwise exclusive or of the low n bits of a and b
Xor(a, b, n) ==
    IF n = 0 THEN 0
    ELSE ((a + b) % 2) + 2 * Xor(a \div 2, b \div 2, n - 1)

RECURSIVE Normal(_, _)
\* the canonical <<m, e>> of m * 2^e
Normal(m, e) ==
    IF m = 0 THEN <<0, 0>>
    ELSE IF m % 2 = 0 THEN Normal(m \div 2, e + 1)
    ELSE <<m, e>>

----------------------------------------------------------------------------
(* struct: the "<f" and "<B" conversions used by "<BB6fB" *)

\* the 24-bit significand and the exponent of its leading bit, for a > 0
\* worth a * 2^e, rounded to nearest, ties to even, as (float)x does
RoundSig(a, e) ==
    LET L == BitLen(a) IN
    IF L <= 24 THEN <<a * Pow2(24 - L), e + L - 1>>
    ELSE LET sh   == L - 24
             q    == a \div Pow2(sh)
             r    == a % Pow2(sh)
             half == Pow2(sh - 1)
             up   == (r > half) \/ (r = half /\ q % 2 = 1)
             q2   == IF up THEN q + 1 ELSE q
         IN  IF q2 = Pow2(24) THEN <<Pow2(23), e + L>>
             ELSE <<q2, e + L - 1>>

\* struct.pack("<f", x) raises OverflowError: the single nearest to x is
\* infinite
FloatOverflows(x) ==
    x[1] # 0 /\ RoundSig(Abs(x[1]), x[2])[2] + 127 >= 255

\* struct.pack("<f", x) for an x that does not overflow: four little-endian
\* bytes of the IEEE-754 single nearest to x.
\* Domain: zero and values whose single is normal (biased exponent >= 1).
PackF(x) ==
    IF x[1] = 0 THEN <<0, 0, 0, 0>>
    ELSE LET sign == IF x[1] < 0 THEN 1 ELSE 0
             se   == RoundSig(Abs(x[1]), x[2])
             bexp == se[2] + 127
             frac == se[1] - Pow2(23)
         IN       << frac % 256,
                     (frac \div 256) % 256,
                     (bexp % 2) * 128 + (frac \div 65536),
                     sign * 128 + (bexp \div 2) >>

\* struct.unpack("<f", b): the Python float of four little-endian bytes.
\* Infinities and NaNs are <<s, 1000>> and <<0, 1000>>; -0.0 is <<0, 0>>
\* (it compares equal to 0.0).
UnpackF(b) ==
    LET sign == b[4] \div 128
        bexp == (b[4] % 128) * 2 + (b[3] \div 128)
        frac == (b[3] % 128) * 65536 + b[2] * 256 + b[1]
        sgn  == IF sign = 1 THEN 0 - 1 ELSE 1
    IN  IF bexp = 255 THEN (IF frac = 0 THEN <<sgn, 1000>> ELSE <<0, 1000>>)
        ELSE IF bexp = 0 THEN Normal(sgn * frac, 0 - 149)
        ELSE Normal(sgn * (Pow2(23) + frac), bexp - 150)

IsUByte(v) == v \in 0..255

RECURSIVE PackFloats(_)
\* the concatenated "<f" packings of a list of floats (all within range)
PackFloats(d) ==
    IF d = <<>> THEN <<>> ELSE PackF(Head(d)) \o PackFloats(Tail(d))

\* struct.pack("<BB6fB", t, c, *d, f): the 27 bytes, or the exception raised.
\* The item count is checked first, then the items in order.
StructPack(t, c, d, f) ==
    IF Len(d) # 6 THEN [kind |-> "raise", exc |-> "struct.error", val |-> <<>>]
    ELSE IF ~IsUByte(t) \/ ~IsUByte(c)
         THEN [kind |-> "raise", exc |-> "struct.error", val |-> <<>>]
    ELSE IF \E i \in 1..6 : FloatOverflows(d[i])
         THEN [kind |-> "raise", exc |-> "OverflowError", val |-> <<>>]
    ELSE IF ~IsUByte(f)
         THEN [kind |-> "raise", exc |-> "struct.error", val |-> <<>>]
    ELSE [kind |-> "bytes", exc |-> None,
          val |-> <<t, c>> \o PackFloats(d) \o <<f>>]

\* struct.unpack("<BB6fB", b) for a 27-byte b: <<typeID, commandType,
\* the six floats, the last byte>>
StructUnpack(b) ==
    << b[1], b[2],
       [i \in 1..6 |-> UnpackF(SubSeq(b, 4 * i - 1, 4 * i + 2))],
       b[27] >>

----------------------------------------------------------------------------
(* CRUMBSMessage: the two dataclasses *)

\* the attributes an instance of each class has
Attrs(cls) ==
    IF cls = "package" THEN {"typeID", "commandType", "data", "crc8"}
    ELSE IF cls = "legacy" THEN {"typeID", "commandType", "data", "errorFlags"}
    ELSE {}

HasAttr(m, a) == a \in Attrs(m.cls)

\* A message object.  The record carries both crc8 and errorFlags; the one
\* the class does not declare is 0 and is never read (see HasAttr).
Message(cls, t, c, d, crc, flags) ==
    [cls |-> cls, typeID |-> t, commandType |-> c, data |-> d,
     crc8 |-> crc, errorFlags |-> flags]

NoMsg == Message("none", 0, 0, <<>>, 0, 0)

Zero == <<0, 0>>

\* a variant of __post_init__ that truncates but forgets to pad
PostInitNoPad(m) ==
    [m EXCEPT !.data = IF Len(m.data) > CRUMBS_DATA_LENGTH
                       THEN SubSeq(m.data, 1, CRUMBS_DATA_LENGTH)
                       ELSE m.data,
              !.crc8 = m.crc8 % 256]

\* CRUMBSMessage.__post_init__ of the package class
PostInit(m) ==
    [m EXCEPT
       !.data =
          IF Len(m.data) # CRUMBS_DATA_LENGTH
          THEN IF Len(m.data) < CRUMBS_DATA_LENGTH
               THEN m.data \o [i \in 1..(CRUMBS_DATA_LENGTH - Len(m.data)) |-> Zero]
               ELSE SubSeq(m.data, 1, CRUMBS_DATA_LENGTH)
          ELSE m.data,
       !.crc8 = m.crc8 % 256]

\* CRUMBSMessage(typeID=t, commandType=c, data=d, <kw>=x) of class cls:
\* the dataclass __init__ rejects a keyword the class does not declare.
NewMessage(cls, t, c, d, kw, x) ==
    IF kw \notin Attrs(cls)
    THEN [kind |-> "raise", err |-> "TypeError", msg |-> NoMsg]
    ELSE IF cls = "package"
         THEN [kind |-> "message", err |-> None,
               msg |-> PostInit(Message(cls, t, c, d, x, 0))]
         ELSE [kind |-> "message", err |-> None,
               msg |-> Message(cls, t, c, d, 0, x)]

----------------------------------------------------------------------------
(* CRUMBS.encode_message and CRUMBS.decode_message (the same text in both   *)
(* copies of CRUMBS.py)                                                    *)

\* encode_message(message): the bytes returned, or the exception that
\* escapes.  Only struct.error is caught (and answered with bytes()).
encode_message(m) ==
    IF ~HasAttr(m, "errorFlags")
    THEN [kind |-> "raise", exc |-> "AttributeError", val |-> <<>>]
    ELSE LET p == StructPack(m.typeID, m.commandType, m.data, m.errorFlags)
         IN  IF p.kind = "raise" /\ p.exc = "struct.error"
             THEN [kind |-> "bytes", exc |-> None, val |-> <<>>]
             ELSE p

\* decode_message(buffer) with the CRUMBSMessage class cls imported:
\* None after "Buffer size too small", the message, or the exception that
\* escapes (only struct.error is caught).
decode_message(cls, buffer) ==
    IF Len(buffer) < CRUMBS_MESSAGE_SIZE
    THEN [kind |-> "none", err |-> "Buffer size too small", msg |-> NoMsg]
    ELSE LET unpacked == StructUnpack(SubSeq(buffer, 1, CRUMBS_MESSAGE_SIZE))
         IN  NewMessage(cls, unpacked[1], unpacked[2], unpacked[3],
                        "errorFlags", unpacked[4])

----------------------------------------------------------------------------
(* The CRC-8 engine and the 31-byte wire format.  Neither is computed by   *)
(* the Python modules; both are written from the protocol description      *)
(* (width 8, poly 0x07, init 0x00, no reflection, no final xor).           *)

\* exclusive or of two nibbles, tabulated
XorNibble == [a \in 0..15 |-> [b \in 0..15 |-> Xor(a, b, 4)]]

\* exclusive or of two bytes
Xor8(a, b) ==
    16 * XorNibble[a \div 16][b \div 16] + XorNibble[a % 16][b % 16]

RECURSIVE Crc8Bits(_, _)
\* n shift-and-reduce steps of the CRC register
Crc8Bits(crc, n) ==
    IF n = 0 THEN crc
    ELSE Crc8Bits(IF crc >= 128 THEN Xor((crc * 2) % 256, 7, 8)
                  ELSE crc * 2, n - 1)

\* the register after one whole byte, tabulated
Crc8Table == [x \in 0..255 |-> Crc8Bits(x, 8)]

RECURSIVE Crc8Upto(_, _)
\* the CRC of the first n bytes
Crc8Upto(bytes, n) ==
    IF n = 0 THEN 0
    ELSE Crc8Table[Xor8(Crc8Upto(bytes, n - 1), bytes[n])]

crc8(bytes) == Crc8Upto(bytes, Len(bytes))

\* the 30 bytes typeID, commandType, seven little-endian singles
Body30(t, c, d) == <<t, c>> \o PackFloats(d)

\* the 31-byte frame of the wire format
Frame31(t, c, d) == Body30(t, c, d) \o <<crc8(Body30(t, c, d))>>

----------------------------------------------------------------------------
(* Inputs *)

\* 75.0, -2.5, 16777217.0 (not a single: packs as 16777216.0), 0.5
FloatVals == << <<75, 0>>, <<0 - 5, 0 - 1>>, <<16777217, 0>>, <<1, 0 - 1>> >>

\* 2.0 ** 128: too large for "<f"
Huge == <<1, 128>>

\* the data lists handed to the constructor: n values taken round-robin
\* from FloatVals starting at k, the first replaced by Huge when h
DataList(n, k, h) ==
    [i \in 1..n |-> IF h /\ i = 1 THEN Huge
                    ELSE FloatVals[((i + k) % Len(FloatVals)) + 1]]

DataInputs ==
    { DataList(n, k, h) : n \in 0..MaxDataLen, k \in 1..Len(FloatVals),
                          h \in BOOLEAN }

\* typeID / commandType values, 256 being out of the unsigned-byte range
TypeInputs == {1, 255, 256}
CommandInputs == {2}
\* crc8 / errorFlags values given to the constructor
LastInputs == {0, 261}

\* the keyword an application uses for the class's last field
LastKw(cls) == IF cls = "package" THEN "crc8" ELSE "errorFlags"

\* received buffers: a wire frame whose CRC byte is right (ok) or off by
\* one, cut or extended (with 0xAA) to n bytes
Buffer(t, k, ok, n) ==
    LET f == Frame31(t, 2, DataList(CRUMBS_DATA_LENGTH, k, FALSE))
        g == IF ok THEN f ELSE [f EXCEPT ![MSG_MESSAGE_SIZE] = (@ + 1) % 256]
    IN  [i \in 1..n |-> IF i <= MSG_MESSAGE_SIZE THEN g[i] ELSE 170]

BufferInputs ==
    { Buffer(t, k, ok, n) : t \in {1, 255}, k \in 1..Len(FloatVals),
                            ok \in BOOLEAN, n \in 0..MaxBufLen }

----------------------------------------------------------------------------
(* Initial state: a module pair is loaded, a CRUMBS object is constructed  *)
(* (self.bus = None), nothing has been called.                             *)

NoBus == 0

NoCtor == [called |-> FALSE, kw |-> None, data |-> <<>>, kind |-> "nothing"]
NoEnc == [kind |-> "nothing", exc |-> None, val |-> <<>>]
NoDec == [kind |-> "nothing", err |-> None, msg |-> NoMsg]
NoCall == [op |-> "none", open |-> FALSE, addr |-> 0, txns |-> 0,
           nbytes |-> 0, closes |-> 0, result |-> None, log |-> None]

Init ==
    /\ impl \in Impls
    /\ ctor = NoCtor
    /\ msg = NoMsg
    /\ enc = NoEnc
    /\ buf = <<>>
    /\ dec = NoDec
    /\ bus = NoBus
    /\ handles = <<>>
    /\ last = NoCall

codecVars == <<ctor, msg, enc, buf, dec>>
busVars == <<bus, handles, last>>

----------------------------------------------------------------------------
(* The codec applied to one input per run *)

\* an application constructs a message
Construct(t, c, d, kw, x) ==
    /\ ~ctor.called
    /\ dec.kind = "nothing"
    /\ LET r == NewMessage(impl, t, c, d, kw, x)
       IN  /\ ctor' = [called |-> TRUE, kw |-> kw, data |-> d, kind |-> r.kind]
           /\ msg' = r.msg
    /\ UNCHANGED <<impl, enc, buf, dec, busVars>>

\* encode_message(msg)
Encode ==
    /\ msg.cls # "none"
    /\ enc.kind = "nothing"
    /\ enc' = encode_message(msg)
    /\ UNCHANGED <<impl, ctor, msg, buf, dec, busVars>>

\* b with byte i replaced by another value
Corrupt(b, i) == [b EXCEPT ![i] = (@ + 1) % 256]

\* decode_message on what encode_message returned, intact (i = 0) or with
\* byte i corrupted
DecodeEncoded(i) ==
    /\ enc.kind = "bytes"
    /\ dec.kind = "nothing"
    /\ i <= Len(enc.val)
    /\ buf' = IF i = 0 THEN enc.val ELSE Corrupt(enc.val, i)
    /\ dec' = decode_message(impl, buf')
    /\ UNCHANGED <<impl, ctor, msg, enc, busVars>>

\* decode_message on a buffer received from elsewhere
DecodeReceived(b) ==
    /\ ~ctor.called
    /\ dec.kind = "nothing"
    /\ buf' = b
    /\ dec' = decode_message(impl, b)
    /\ UNCHANGED <<impl, ctor, msg, enc, busVars>>

CodecNext ==
    \/ \E t \in TypeInputs, c \in CommandInputs, d \in DataInputs,
          kw \in {"crc8", "errorFlags"}, x \in LastInputs :
          Construct(t, c, d, kw, x)
    \/ Encode
    \/ \E i \in 0..MSG_MESSAGE_SIZE : DecodeEncoded(i)
    \/ \E b \in BufferInputs : DecodeReceived(b)

CodecSpec == Init /\ [][CodecNext]_vars

----------------------------------------------------------------------------
(* The transport.  An SMBus object is [fd, closes]: whether its file       *)
(* descriptor is open, and how many close() calls it has received.         *)
(* Driver behaviour assumed of smbus2: SMBus(n) opens the device or        *)
(* raises; close() releases an open descriptor; i2c_rdwr on an open        *)
(* descriptor performs the transfer or raises OSError, and on a closed     *)
(* one raises.                                                             *)

\* the transport is Open: self.bus is an SMBus whose descriptor is open
IsOpen == bus # NoBus /\ handles[bus].fd

\* target addresses: 0x08, 0x7F, and 0x80 (outside the 7-bit range)
AddrInputs == {8, 127, 128}

\* messages an application sends: six or seven data values, in or out of
\* range
SendInput(n, h) ==
    NewMessage(impl, 1, 2, DataList(n, 1, h), LastKw(impl), 0).msg

\* lengths of the bytes object built from a completed read: the 27 bytes
\* asked for (bytes(list(read))), or the size of read.buf itself, a
\* pointer (bytes(read.buf))
ReadLens == {4, 8, CRUMBS_MESSAGE_SIZE}

ReadInputs == { Buffer(1, 1, ok, n) : ok \in BOOLEAN, n \in ReadLens }

Call(op, addr, txns, nbytes, closes, result, log) ==
    [op |-> op, open |-> IsOpen, addr |-> addr, txns |-> txns,
     nbytes |-> nbytes, closes |-> closes, result |-> result, log |-> log]

\* begin(): self.bus = SMBus(self.bus_number).  ok: the device opens.
begin(ok) ==
    /\ Len(handles) < MaxHandles
    /\ IF ok
       THEN /\ handles' = Append(handles, [fd |-> TRUE, closes |-> 0])
            /\ bus' = Len(handles) + 1
            /\ last' = Call("begin", 0, 0, 0, 0, "None", "I2C bus opened")
       ELSE /\ UNCHANGED <<bus, handles>>
            /\ last' = Call("begin", 0, 0, 0, 0, "raise", "OSError")
    /\ UNCHANGED <<impl, codecVars>>

\* self.bus.i2c_rdwr(...) with self.bus an SMBus: "ok" when the transfer
\* completes, else the exception raised.  acked: the device answers.
Rdwr(acked) ==
    IF ~handles[bus].fd THEN "TypeError"
    ELSE IF acked THEN "ok" ELSE "OSError"

\* what send_message(message, target_address) does once encode_message
\* has answered with encoded
SendCall(encoded, addr, acked) ==
    IF encoded.kind = "raise"
    THEN Call("send", addr, 0, 0, 0, "raise", encoded.exc)
    ELSE IF Len(encoded.val) # CRUMBS_MESSAGE_SIZE
    THEN Call("send", addr, 0, 0, 0, "False", "Encoded message size mismatch")
    ELSE IF bus = NoBus
    THEN IF impl = "package"
         THEN Call("send", addr, 0, 0, 0, "False", "I2C bus is not open")
         ELSE Call("send", addr, 0, 0, 0, "None", "Failed to send message")
    ELSE IF Rdwr(acked) = "ok"
         THEN Call("send", addr, 1, Len(encoded.val), 0,
                   IF impl = "package" THEN "True" ELSE "None",
                   "Message sent")
         ELSE Call("send", addr, 1, Len(encoded.val), 0,
                   IF impl = "package" THEN "False" ELSE "None",
                   "Failed to send message")

\* send_message(message, target_address)
send_message(m, addr, acked) ==
    /\ last' = SendCall(encode_message(m), addr, acked)
    /\ UNCHANGED <<impl, codecVars, bus, handles>>

\* request_message(target_address).  b: the bytes object built from the
\* completed read.
request_message(addr, acked, b) ==
    /\ last' =
         IF bus = NoBus
         THEN IF impl = "package"
              THEN Call("request", addr, 0, 0, 0, "None", "I2C bus is not open")
              ELSE Call("request", addr, 0, 0, 0, "None", "Failed to request message")
         ELSE IF Rdwr(acked) # "ok"
         THEN Call("request", addr, 1, CRUMBS_MESSAGE_SIZE, 0, "None",
                   "Failed to request message")
         ELSE LET r == decode_message(impl, b) IN
              IF r.kind = "message"
              THEN Call("request", addr, 1, CRUMBS_MESSAGE_SIZE, 0, "message",
                        "Received")
              ELSE IF r.kind = "none"
              THEN Call("request", addr, 1, CRUMBS_MESSAGE_SIZE, 0, "None", r.err)
              ELSE Call("request", addr, 1, CRUMBS_MESSAGE_SIZE, 0, "None",
                        "Failed to request message")
    /\ UNCHANGED <<impl, codecVars, bus, handles>>

\* close(): if self.bus: self.bus.close().  self.bus is not reset.
close ==
    /\ bus # NoBus => handles[bus].closes < MaxCloseCalls
    /\ IF bus # NoBus
       THEN /\ handles' = [handles EXCEPT ![bus] =
                              [fd |-> FALSE, closes |-> @.closes + 1]]
            /\ last' = Call("close", 0, 0, 0, 1, "None", "I2C bus closed")
       ELSE /\ UNCHANGED handles
            /\ last' = Call("close", 0, 0, 0, 0, "None", None)
    /\ UNCHANGED <<impl, codecVars, bus>>

Next ==
    \/ \E ok \in BOOLEAN : begin(ok)
    \/ \E n \in {6, 7}, h \in BOOLEAN, addr \in AddrInputs, acked \in BOOLEAN :
          send_message(SendInput(n, h), addr, acked)
    \/ \E addr \in AddrInputs, acked \in BOOLEAN, b \in ReadInputs :
          request_message(addr, acked, b)
    \/ close

Spec == Init /\ [][Next]_vars

----------------------------------------------------------------------------
(* Properties of the codec (checked under CodecSpec) *)

\* x is a single-precision value: packing and unpacking gives it back
IsSingle(x) == ~FloatOverflows(x) /\ UnpackF(PackF(x)) = x

\* a valid message: both ids are unsigned bytes, data is seven singles
ValidMessage(m) ==
    /\ m.cls # "none"
    /\ IsUByte(m.typeID) /\ IsUByte(m.commandType)
    /\ Len(m.data) = CRUMBS_DATA_LENGTH
    /\ \A i \in 1..Len(m.data) : IsSingle(m.data[i])

\* the received CRC byte of a buffer of at least 31 bytes equals the CRC-8
\* of its bytes 0-29
CrcMatches(b) ==
    crc8(SubSeq(b, 1, MSG_MESSAGE_SIZE - 1)) = b[MSG_MESSAGE_SIZE]

\* C1: for every buffer of at least 31 bytes, decode_message returns no
\* message and reports a failure (returns None) whenever the CRC-8 of bytes
\* 0-29 differs from byte 30, and returns a message only when they agree.
C1_DecodeRejectsBadCrc ==
    (dec.kind # "nothing" /\ Len(buf) >= MSG_MESSAGE_SIZE) =>
        /\ ~CrcMatches(buf) => dec.kind = "none"
        /\ dec.kind = "message" => CrcMatches(buf)

\* C2: round trip: for every valid message that has been encoded, the
\* encoding is a bytes object whose decoding is a message with the same
\* typeID, commandType and data, and with crc8 the CRC-8 of bytes 0-29.
C2_RoundTrip ==
    (ValidMessage(msg) /\ enc.kind # "nothing") =>
        /\ enc.kind = "bytes"
        /\ decode_message(impl, enc.val).kind = "message"
        /\ LET r == decode_message(impl, enc.val).msg
           IN  /\ r.typeID = msg.typeID
               /\ r.commandType = msg.commandType
               /\ r.data = msg.data
               /\ HasAttr(r, "crc8")
               /\ r.crc8 = crc8(SubSeq(enc.val, 1, MSG_MESSAGE_SIZE - 1))

\* C3: for every message whose data is normalized to 7 values,
\* encode_message returns the 31-byte wire frame (typeID, commandType, the
\* 7 values in order, the CRC-8 of those 30 bytes): never an error, never
\* an empty or shorter result.
C3_EncodeTotal ==
    (ValidMessage(msg) /\ enc.kind # "nothing") =>
        /\ enc.kind = "bytes"
        /\ Len(enc.val) = MSG_MESSAGE_SIZE
        /\ enc.val = Frame31(msg.typeID, msg.commandType, msg.data)

\* C4: for every buffer shorter than 31 bytes, whatever it holds,
\* decode_message returns None after reporting the buffer too short.
C4_LengthGuard ==
    (dec.kind # "nothing" /\ Len(buf) < MSG_MESSAGE_SIZE) =>
        (dec.kind = "none" /\ dec.err = "Buffer size too small")

\* C10: a package CRUMBSMessage constructed from n data values always
\* exists and holds exactly 7: the values given, in order, cut after the
\* seventh or followed by 0.0 up to the seventh.
C10_DataNormalized ==
    (ctor.called /\ impl = "package" /\ ctor.kw = "crc8") =>
        /\ ctor.kind = "message"
        /\ Len(msg.data) = CRUMBS_DATA_LENGTH
        /\ \A i \in 1..CRUMBS_DATA_LENGTH :
              msg.data[i] = IF i <= Len(ctor.data) THEN ctor.data[i] ELSE Zero

\* a package message built from three values: they lead, four 0.0 follow
C10_Witness ==
    /\ ctor.called /\ impl = "package" /\ ctor.kw = "crc8"
    /\ Len(ctor.data) = 3
    /\ ctor.data[1] # Zero
    /\ msg.data[3] = ctor.data[3]
    /\ msg.data[4] = Zero

----------------------------------------------------------------------------
(* Properties of the transport (checked under Spec) *)

IsTransfer(c) == c.op \in {"send", "request"}

\* the SMBus objects acquired and not yet released
Acquired == { h \in 1..Len(handles) : handles[h].fd }

\* C5: a send or request made while the transport is Closed issues no
\* i2c_rdwr call on the bus object and does not report success.
C5_ClosedNoTransfer ==
    (IsTransfer(last) /\ ~last.open) =>
        (last.txns = 0 /\ last.result \notin {"True", "message"})

\* C6: close on a Closed transport raises nothing and calls close() on no
\* bus object, and no bus object ever receives a second close().
C6_CloseIdempotent ==
    /\ (last.op = "close" /\ ~last.open) =>
          (last.closes = 0 /\ last.result = "None")
    /\ \A h \in 1..Len(handles) : handles[h].closes <= 1

\* C7: every send or request on an Open transport makes exactly one
\* i2c_rdwr call, for the full 31-byte frame.
C7_OneTransferPerCall ==
    (IsTransfer(last) /\ last.open) =>
        (last.txns = 1 /\ last.nbytes = MSG_MESSAGE_SIZE)

\* C8: at every moment at most one bus object is acquired and not released.
C8_AtMostOneHandle == Cardinality(Acquired) <= 1

\* C9: a send or request to an address outside 0x00-0x7F issues no
\* i2c_rdwr call.
C9_BadAddressNoTransfer ==
    (IsTransfer(last) /\ last.addr \notin 0..127) => last.txns = 0

====
